---- MODULE Spec2Model ----
(***************************************************************************)
(* A model of pycas (src/pycas/cas_reader.py): the CAS chunk decoder       *)
(* CASReader.read, the derivations built on the parsed chunk list, and the *)
(* selection parser parse_chunk_selection.                                 *)
(*                                                                         *)
(* Bytes are integers 0..255, byte strings are sequences of bytes, text is *)
(* a sequence of Unicode code points (so chr(b) is b, '.' is 46, U+FFFD is *)
(* 65533).  Python's None is <<>> and a present optional value x is <<x>>. *)
(***************************************************************************)
EXTENDS Integers, Sequences, FiniteSets, TLC

VARIABLES
    file_data,     \* the bytes of the file at self.filepath
    pc,            \* "init" (constructed), "reading" (inside read()), "ready"
    offset,        \* read()'s cursor
    chunks,        \* self.chunks
    data_blocks,   \* self.data_blocks
    reads,         \* number of read() calls that have returned
    err,           \* the exception that ended the last call, or "none"
    op,            \* the last public operation called
    args,          \* its arguments
    ret,           \* its return value
    output_lines   \* dump_chunks' list of lines when it returned

vars == <<file_data, pc, offset, chunks, data_blocks, reads, err, op, args, ret,
          output_lines>>

-----------------------------------------------------------------------------
(* Bounds of the model *)

\* chunks (well-formed or not) that an input file is put together from
MaxChunks == 2
\* read() calls on one reader
MaxReads == 2
\* characters of a selection specification
MaxSpecLen == 4
\* largest max_chunks handed to parse_chunk_selection
MaxCount == 3

-----------------------------------------------------------------------------
(* Python helpers *)

Min(a, b) == IF a < b THEN a ELSE b
Max(a, b) == IF a > b THEN a ELSE b

\* s[a:b] for 0 <= a: the slice is clamped to the sequence, never an error
Slice(s, a, b) == SubSeq(s, a + 1, Min(b, Len(s)))

\* struct.unpack('<H', b)[0]: struct.error unless b has exactly 2 bytes
UnpackOk(b) == Len(b) = 2
Unpack(b) == b[1] + 256 * b[2]

\* Pack with the two bytes in big-endian order
PackBigEndian(n) == <<(n \div 256) % 256, n % 256>>

\* struct.pack('<H', n) for n in 0..65535, all that unpack can produce
Pack(n) == <<n % 256, (n \div 256) % 256>>

RECURSIVE Concat(_)
\* the sequences of seqs one after the other
Concat(seqs) ==
    IF seqs = <<>> THEN <<>> ELSE Head(seqs) \o Concat(Tail(seqs))

\* ChunkType values
FUJI == <<70, 85, 74, 73>>
BAUD == <<98, 97, 117, 100>>
DATA == <<100, 97, 116, 97>>

-----------------------------------------------------------------------------
(* CASReader.read: one pass of the while loop over the local state         *)
(* st = [pc, offset, chunks, data_blocks, err]                             *)

\* ReadStep without the check that the declared payload fits the file: the
\* slice is clamped and a short chunk is emitted
ReadStepPartial(fd, st) ==
    IF ~(st.offset < Len(fd)) THEN [st EXCEPT !.pc = "ready"]
    ELSE IF st.offset + 8 > Len(fd) THEN [st EXCEPT !.pc = "ready"]
    ELSE
      LET chunk_type == Slice(fd, st.offset, st.offset + 4)
          length == Unpack(Slice(fd, st.offset + 4, st.offset + 6))
          aux_data == Unpack(Slice(fd, st.offset + 6, st.offset + 8))
          header == [chunk_type |-> chunk_type, length |-> length,
                     aux_data |-> aux_data]
          off8 == st.offset + 8
          chunk_data == Slice(fd, off8, off8 + length)
      IN [st EXCEPT
            !.offset = off8 + length,
            !.chunks = Append(@, [header |-> header, data |-> chunk_data]),
            !.data_blocks = IF chunk_type = DATA
                            THEN Append(@, chunk_data) ELSE @]

\* ReadStep with 'continue' for 'break' where the header does not fit: the
\* cursor stays where it is
ReadStepStuck(fd, st) ==
    IF ~(st.offset < Len(fd)) THEN [st EXCEPT !.pc = "ready"]
    ELSE IF st.offset + 8 > Len(fd) THEN st
    ELSE
      LET chunk_type == Slice(fd, st.offset, st.offset + 4)
          length == Unpack(Slice(fd, st.offset + 4, st.offset + 6))
          aux_data == Unpack(Slice(fd, st.offset + 6, st.offset + 8))
          header == [chunk_type |-> chunk_type, length |-> length,
                     aux_data |-> aux_data]
          off8 == st.offset + 8
      IN IF off8 + length > Len(fd)
         THEN [st EXCEPT !.pc = "ready", !.offset = off8]
         ELSE
           LET chunk_data == Slice(fd, off8, off8 + length)
           IN [st EXCEPT
                 !.offset = off8 + length,
                 !.chunks = Append(@, [header |-> header, data |-> chunk_data]),
                 !.data_blocks = IF chunk_type = DATA
                                 THEN Append(@, chunk_data) ELSE @]

ReadStep(fd, st) ==
    IF ~(st.offset < Len(fd)) THEN [st EXCEPT !.pc = "ready"]
    ELSE IF st.offset + 8 > Len(fd) THEN [st EXCEPT !.pc = "ready"]
    ELSE
      LET chunk_type == Slice(fd, st.offset, st.offset + 4)
          lenb == Slice(fd, st.offset + 4, st.offset + 6)
          auxb == Slice(fd, st.offset + 6, st.offset + 8)
      IN IF ~UnpackOk(lenb) \/ ~UnpackOk(auxb)
         THEN [st EXCEPT !.pc = "ready", !.err = "struct.error"]
         ELSE
           LET length == Unpack(lenb)
               aux_data == Unpack(auxb)
               header == [chunk_type |-> chunk_type, length |-> length,
                          aux_data |-> aux_data]
               off8 == st.offset + 8
           IN IF off8 + length > Len(fd)
              THEN [st EXCEPT !.pc = "ready", !.offset = off8]
              ELSE
                LET chunk_data == Slice(fd, off8, off8 + length)
                    chunk == [header |-> header, data |-> chunk_data]
                IN [st EXCEPT
                      !.offset = off8 + length,
                      !.chunks = Append(@, chunk),
                      !.data_blocks = IF chunk_type = DATA
                                      THEN Append(@, chunk_data) ELSE @]

RECURSIVE ReadLoop(_, _)
\* the whole while loop, run to its end
ReadLoop(fd, st) ==
    IF st.pc # "reading" THEN st ELSE ReadLoop(fd, ReadStep(fd, st))

\* CASReader(filepath) followed by read(): a fresh reader's pass over fd
Decode(fd) ==
    ReadLoop(fd, [pc |-> "reading", offset |-> 0, chunks |-> <<>>,
                  data_blocks |-> <<>>, err |-> "none"])

-----------------------------------------------------------------------------
(* Derivations *)

RECURSIVE to_byte_array_all(_)
\* to_byte_array without the test of the chunk type
to_byte_array_all(cs) ==
    IF cs = <<>> THEN <<>> ELSE Head(cs).data \o to_byte_array_all(Tail(cs))

RECURSIVE to_byte_array(_)
to_byte_array(cs) ==
    IF cs = <<>> THEN <<>>
    ELSE (IF Head(cs).header.chunk_type = DATA THEN Head(cs).data ELSE <<>>)
         \o to_byte_array(Tail(cs))

RECURSIVE get_all_chunks_without_aux(_)
\* get_all_chunks_as_bytes without the aux_data word of the header
get_all_chunks_without_aux(cs) ==
    IF cs = <<>> THEN <<>>
    ELSE Head(cs).header.chunk_type \o Pack(Head(cs).header.length)
         \o Head(cs).data \o get_all_chunks_without_aux(Tail(cs))

RECURSIVE get_all_chunks_as_bytes(_)
get_all_chunks_as_bytes(cs) ==
    IF cs = <<>> THEN <<>>
    ELSE Head(cs).header.chunk_type \o Pack(Head(cs).header.length)
         \o Pack(Head(cs).header.aux_data) \o Head(cs).data
         \o get_all_chunks_as_bytes(Tail(cs))

-----------------------------------------------------------------------------
(* Text: bytes.decode and number formatting *)

\* a UTF-8 continuation byte
IsCont(b) == b >= 128 /\ b <= 191

\* the length of the well-formed UTF-8 sequence that starts at b[i], 0 if none
Utf8SeqLen(b, i) ==
    LET n == Len(b)
        b0 == b[i]
        b1 == b[i + 1]
    IN IF b0 < 128 THEN 1
       ELSE IF b0 >= 194 /\ b0 <= 223
            THEN IF i + 1 <= n /\ IsCont(b1) THEN 2 ELSE 0
       ELSE IF b0 >= 224 /\ b0 <= 239
            THEN IF i + 2 <= n /\ IsCont(b1) /\ IsCont(b[i + 2])
                    /\ (b0 = 224 => b1 >= 160) /\ (b0 = 237 => b1 <= 159)
                 THEN 3 ELSE 0
       ELSE IF b0 >= 240 /\ b0 <= 244
            THEN IF i + 3 <= n /\ IsCont(b1) /\ IsCont(b[i + 2]) /\ IsCont(b[i + 3])
                    /\ (b0 = 240 => b1 >= 144) /\ (b0 = 244 => b1 <= 143)
                 THEN 4 ELSE 0
       ELSE 0

\* the code point of the well-formed sequence of k bytes at b[i]
Utf8CodePoint(b, i, k) ==
    IF k = 1 THEN b[i]
    ELSE IF k = 2 THEN (b[i] - 192) * 64 + (b[i + 1] - 128)
    ELSE IF k = 3 THEN (b[i] - 224) * 4096 + (b[i + 1] - 128) * 64 + (b[i + 2] - 128)
    ELSE (b[i] - 240) * 262144 + (b[i + 1] - 128) * 4096
         + (b[i + 2] - 128) * 64 + (b[i + 3] - 128)

RECURSIVE Utf8From(_, _)
\* bytes.decode('utf-8') from b[i] on: <<text>>, or <<>> for UnicodeDecodeError
Utf8From(b, i) ==
    IF i > Len(b) THEN << <<>> >>
    ELSE LET k == Utf8SeqLen(b, i)
         IN IF k = 0 THEN <<>>
            ELSE LET rest == Utf8From(b, i + k)
                 IN IF rest = <<>> THEN <<>>
                    ELSE << <<Utf8CodePoint(b, i, k)>> \o rest[1] >>

\* bytes.decode('latin-1', errors='ignore'): every byte is its own code point
Latin1Decode(b) == [i \in 1..Len(b) |-> b[i]]

\* get_metadata's try/except around the description
DecodeDescription(b) ==
    LET u == Utf8From(b, 1)
    IN IF u # <<>> THEN u[1] ELSE Latin1Decode(b)

RECURSIVE AsciiIgnore(_)
\* bytes.decode('ascii', errors='ignore'): bytes above 127 are dropped
AsciiIgnore(b) ==
    IF b = <<>> THEN <<>>
    ELSE (IF Head(b) < 128 THEN <<Head(b)>> ELSE <<>>) \o AsciiIgnore(Tail(b))

\* bytes.decode('ascii', errors='replace'): bytes above 127 become U+FFFD
AsciiReplace(b) == [i \in 1..Len(b) |-> IF b[i] < 128 THEN b[i] ELSE 65533]

Digits == <<48, 49, 50, 51, 52, 53, 54, 55, 56, 57, 97, 98, 99, 100, 101, 102>>

RECURSIVE ToBase(_, _)
\* the digits of n >= 0 in the given base, at least one
ToBase(n, base) ==
    IF n < base THEN <<Digits[n + 1]>>
    ELSE ToBase(n \div base, base) \o <<Digits[(n % base) + 1]>>

\* f"{n}" for n >= 0
DecStr(n) == ToBase(n, 10)

\* f"{n:0{width}x}" for n >= 0
HexStr(n, width) ==
    LET d == ToBase(n, 16)
    IN [i \in 1..(Max(width, Len(d)) - Len(d)) |-> 48] \o d

\* str.ljust(width)
Ljust(s, width) == s \o [i \in 1..(Max(width, Len(s)) - Len(s)) |-> 32]

RECURSIVE Join(_, _)
\* sep.join(parts) for a one-character separator
Join(sep, parts) ==
    IF parts = <<>> THEN <<>>
    ELSE IF Len(parts) = 1 THEN parts[1]
    ELSE parts[1] \o <<sep>> \o Join(sep, Tail(parts))

-----------------------------------------------------------------------------
(* get_metadata, get_chunk_info *)

RECURSIVE MetadataLoopFirst(_, _)
\* the loop taken from the last chunk to the first, so that the first chunk
\* of a kind is the one that stays: what a break at the first match gives
MetadataLoopFirst(cs, metadata) ==
    IF cs = <<>> THEN metadata
    ELSE LET chunk == cs[Len(cs)]
             m == IF chunk.header.chunk_type = FUJI
                  THEN [metadata EXCEPT
                          !.description = <<DecodeDescription(chunk.data)>>]
                  ELSE IF chunk.header.chunk_type = BAUD /\ Len(chunk.data) >= 2
                  THEN [metadata EXCEPT
                          !.baudrate = Unpack(Slice(chunk.data, 0, 2))]
                  ELSE metadata
         IN MetadataLoopFirst(SubSeq(cs, 1, Len(cs) - 1), m)

RECURSIVE MetadataLoop(_, _)
\* the for loop of get_metadata over the chunks still to visit
MetadataLoop(cs, metadata) ==
    IF cs = <<>> THEN metadata
    ELSE LET chunk == Head(cs)
             m == IF chunk.header.chunk_type = FUJI
                  THEN [metadata EXCEPT
                          !.description = <<DecodeDescription(chunk.data)>>]
                  ELSE IF chunk.header.chunk_type = BAUD /\ Len(chunk.data) >= 2
                  THEN [metadata EXCEPT
                          !.baudrate = Unpack(Slice(chunk.data, 0, 2))]
                  ELSE metadata
         IN MetadataLoop(Tail(cs), m)

get_metadata(cs, dbs) ==
    MetadataLoop(cs, [description |-> <<>>, baudrate |-> 600,
                      chunk_count |-> Len(cs), data_block_count |-> Len(dbs)])

\* get_chunk_info with errors='replace', as dump_chunks has it
get_chunk_info_replace(cs) ==
    [i \in 1..Len(cs) |->
        [index |-> i - 1,
         type |-> AsciiReplace(cs[i].header.chunk_type),
         length |-> cs[i].header.length,
         aux_data |-> cs[i].header.aux_data]]

get_chunk_info(cs) ==
    [i \in 1..Len(cs) |->
        [index |-> i - 1,
         type |-> AsciiIgnore(cs[i].header.chunk_type),
         length |-> cs[i].header.length,
         aux_data |-> cs[i].header.aux_data]]

-----------------------------------------------------------------------------
(* dump_chunks *)

\* one row of the dump: data[offset:offset+16] under the two flags
DumpRow(data, off, show_hex, show_ascii) ==
    LET line_data == Slice(data, off, off + 16)
        label == HexStr(off, 4) \o <<58>>
        hex_part == Ljust(Join(32, [i \in 1..Len(line_data) |->
                                        HexStr(line_data[i], 2)]), 48)
        ascii_part == [i \in 1..Len(line_data) |->
                          IF 32 <= line_data[i] /\ line_data[i] < 127
                          THEN line_data[i] ELSE 46]
        line_parts == <<label>>
                      \o (IF show_hex THEN <<hex_part>> ELSE <<>>)
                      \o (IF show_ascii
                          THEN (IF show_hex THEN << <<124>> >> ELSE <<>>)
                               \o <<ascii_part>>
                          ELSE <<>>)
    IN Join(32, line_parts)

\* range(0, n, 16) with the last, partial row left out
RowOffsetsWholeRows(n) == [k \in 1..(n \div 16) |-> 16 * (k - 1)]

\* range(0, n, 16)
RowOffsets(n) == [k \in 1..((n + 15) \div 16) |-> 16 * (k - 1)]

\* the lines dump_chunks appends for chunks[idx]
DumpChunk(cs, idx, show_hex, show_ascii) ==
    LET chunk == cs[idx + 1]
        chunk_type == AsciiReplace(chunk.header.chunk_type)
        data == chunk.data
        offsets == RowOffsets(Len(data))
    IN << <<67, 104, 117, 110, 107, 32, 91>> \o DecStr(idx)
          \o <<93, 32, 84, 121, 112, 101, 58, 32>> \o chunk_type
          \o <<44, 32, 76, 101, 110, 103, 116, 104, 58, 32>>
          \o DecStr(chunk.header.length)
          \o <<44, 32, 65, 117, 120, 58, 32>> \o DecStr(chunk.header.aux_data),
          [i \in 1..80 |-> 45] >>
       \o (IF Len(data) = 0
           THEN << <<32, 32, 40, 101, 109, 112, 116, 121, 41>> >>
           ELSE [k \in 1..Len(offsets) |->
                    DumpRow(data, offsets[k], show_hex, show_ascii)])
       \o << <<>> >>

RECURSIVE DumpLoop(_, _, _, _)
\* the for loop of dump_chunks over the indices still to visit
DumpLoop(cs, indices, show_hex, show_ascii) ==
    IF indices = <<>> THEN <<>>
    ELSE LET idx == Head(indices)
         IN (IF idx < 0 \/ idx >= Len(cs) THEN <<>>
             ELSE DumpChunk(cs, idx, show_hex, show_ascii))
            \o DumpLoop(cs, Tail(indices), show_hex, show_ascii)

\* output_lines when dump_chunks returns; chunk_indices is <<>> for None
DumpLines(cs, chunk_indices, show_hex, show_ascii) ==
    LET indices == IF chunk_indices = <<>>
                   THEN [i \in 1..Len(cs) |-> i - 1]
                   ELSE chunk_indices[1]
    IN DumpLoop(cs, indices, show_hex, show_ascii)

dump_chunks(cs, chunk_indices, show_hex, show_ascii) ==
    Join(10, DumpLines(cs, chunk_indices, show_hex, show_ascii))

-----------------------------------------------------------------------------
(* parse_chunk_selection *)

\* the characters str.strip() and int() treat as whitespace
IsSpace(c) == c \in {9, 10, 11, 12, 13, 28, 29, 30, 31, 32, 133, 160}

IsDigit(c) == c >= 48 /\ c <= 57

RECURSIVE LStrip(_)
LStrip(s) == IF s # <<>> /\ IsSpace(Head(s)) THEN LStrip(Tail(s)) ELSE s

RECURSIVE RStrip(_)
RStrip(s) ==
    IF s # <<>> /\ IsSpace(s[Len(s)]) THEN RStrip(SubSeq(s, 1, Len(s) - 1)) ELSE s

\* str.strip()
Strip(s) == RStrip(LStrip(s))

\* the 1-based position of the first c in s, 0 when there is none
IndexOf(s, c) ==
    IF \E i \in 1..Len(s) : s[i] = c
    THEN CHOOSE i \in 1..Len(s) : s[i] = c /\ \A j \in 1..(i - 1) : s[j] # c
    ELSE 0

RECURSIVE Split(_, _)
\* str.split(sep): always at least one part
Split(s, sep) ==
    LET i == IndexOf(s, sep)
    IN IF i = 0 THEN <<s>>
       ELSE <<SubSeq(s, 1, i - 1)>> \o Split(SubSeq(s, i + 1, Len(s)), sep)

\* str.split(sep, 1) of a string that holds sep
SplitFirst(s, sep) ==
    LET i == IndexOf(s, sep)
    IN <<SubSeq(s, 1, i - 1), SubSeq(s, i + 1, Len(s))>>

\* the digits (and single underscores between digits) int() accepts
DigitsOk(d) ==
    /\ d # <<>>
    /\ \A i \in 1..Len(d) :
          \/ IsDigit(d[i])
          \/ /\ d[i] = 95
             /\ i > 1 /\ i < Len(d)
             /\ IsDigit(d[i - 1]) /\ IsDigit(d[i + 1])

RECURSIVE DigitsValue(_, _)
DigitsValue(d, acc) ==
    IF d = <<>> THEN acc
    ELSE IF Head(d) = 95 THEN DigitsValue(Tail(d), acc)
    ELSE DigitsValue(Tail(d), 10 * acc + (Head(d) - 48))

\* int(s): <<value>>, or <<>> for ValueError
PyInt(s) ==
    LET t == Strip(s)
        signed == t # <<>> /\ Head(t) \in {43, 45}
        d == IF signed THEN Tail(t) ELSE t
    IN IF ~DigitsOk(d) THEN <<>>
       ELSE IF signed /\ Head(t) = 45 THEN <<0 - DigitsValue(d, 0)>>
       ELSE <<DigitsValue(d, 0)>>

\* what one part of the specification adds to indices: <<set>>, or <<>> for
\* ValueError
PartIndices(rawpart, max_chunks) ==
    LET part == Strip(rawpart)
    IN IF IndexOf(part, 45) # 0
       THEN LET se == SplitFirst(part, 45)
                start_idx == PyInt(Strip(se[1]))
                end_idx == PyInt(Strip(se[2]))
            IN IF start_idx = <<>> \/ end_idx = <<>> THEN <<>>
               ELSE <<{i \in start_idx[1]..end_idx[1] : 0 <= i /\ i < max_chunks}>>
       ELSE LET idx == PyInt(part)
            IN IF idx = <<>> THEN <<>>
               ELSE <<{i \in {idx[1]} : 0 <= i /\ i < max_chunks}>>

RECURSIVE Sorted(_)
\* sorted(list(indices))
Sorted(S) ==
    IF S = {} THEN <<>>
    ELSE LET m == CHOOSE x \in S : \A y \in S : x <= y
         IN <<m>> \o Sorted(S \ {m})

\* [raised, value]: raised is "ValueError" when int() failed on some part
parse_chunk_selection(chunk_spec, max_chunks) ==
    IF chunk_spec = <<>>
    THEN [raised |-> "none", value |-> [i \in 1..Max(max_chunks, 0) |-> i - 1]]
    ELSE LET parts == Split(chunk_spec, 44)
             got == [k \in 1..Len(parts) |-> PartIndices(parts[k], max_chunks)]
         IN IF \E k \in 1..Len(parts) : got[k] = <<>>
            THEN [raised |-> "ValueError", value |-> <<>>]
            ELSE [raised |-> "none",
                  value |-> Sorted(UNION {got[k][1] : k \in 1..Len(parts)})]

-----------------------------------------------------------------------------
(* Input files *)

\* n as two little-endian bytes, for writing the input files
Le16(n) == <<n % 256, n \div 256>>

\* n payload bytes, printable and not
Ramp(n) == [i \in 1..n |-> (i * 29) % 256]

\* the bytes of one chunk as a file holds it: the header's length field need
\* not be the number of payload bytes that follow
Raw(type, length, aux, payload) == type \o Le16(length) \o Le16(aux) \o payload

\* a type code that is neither known nor ASCII: 'd', 0xC8, newline, 'a'
ODD == <<100, 200, 10, 97>>

Pieces ==
    { Raw(DATA, 16, 0, Ramp(16)),
      Raw(ODD, 17, 258, Ramp(17)),
      Raw(FUJI, 2, 0, <<195, 169>>),
      Raw(FUJI, 2, 0, <<72, 233>>),
      Raw(BAUD, 3, 0, <<176, 4, 9>>),
      Raw(BAUD, 2, 0, <<44, 1>>),
      Raw(BAUD, 0, 513, <<>>),
      Raw(DATA, 3, 0, <<9>>),
      Raw(DATA, 257, 0, <<9>>) }

\* the files read: up to MaxChunks pieces one after the other
Buffers ==
    UNION { { Concat(ps) : ps \in [1..n -> Pieces] } : n \in 0..MaxChunks }

\* chunk_indices handed to dump_chunks: None, or a list
DumpIndexLists == { <<>>, << <<0 - 1, 7, 1, 0>> >> }

TypeOK ==
    /\ pc \in {"init", "reading", "ready"}
    /\ offset \in 0..(Len(file_data) + 8)
    /\ reads \in 0..MaxReads
    /\ err \in {"none", "struct.error", "ValueError"}

-----------------------------------------------------------------------------
(* The reader: construction, read() and the public operations *)

\* CASReader(filepath), with the file's content chosen
Init ==
    /\ file_data \in Buffers
    /\ pc = "init"
    /\ offset = 0
    /\ chunks = <<>>
    /\ data_blocks = <<>>
    /\ reads = 0
    /\ err = "none"
    /\ op = "none"
    /\ args = <<>>
    /\ ret = <<>>
    /\ output_lines = <<>>

Idle == pc \in {"init", "ready"}

\* read() is called: the file is read whole and the cursor starts at 0
ReadBegin ==
    /\ Idle
    /\ reads < MaxReads
    /\ pc' = "reading"
    /\ offset' = 0
    /\ err' = "none"
    /\ op' = "read"
    /\ args' = <<>>
    /\ ret' = <<>>
    /\ output_lines' = <<>>
    /\ UNCHANGED <<file_data, chunks, data_blocks, reads>>

\* one pass of read()'s loop; read() returns when the loop ends
ReadIter ==
    /\ pc = "reading"
    /\ LET st == ReadStep(file_data,
                          [pc |-> pc, offset |-> offset, chunks |-> chunks,
                           data_blocks |-> data_blocks, err |-> err])
       IN /\ pc' = st.pc
          /\ offset' = st.offset
          /\ chunks' = st.chunks
          /\ data_blocks' = st.data_blocks
          /\ err' = st.err
          /\ reads' = IF st.pc = "ready" THEN reads + 1 ELSE reads
    /\ UNCHANGED <<file_data, op, args, ret, output_lines>>

\* a public operation that only reads the reader and returns r
Returns(name, a, r, lines) ==
    /\ Idle
    /\ op' = name
    /\ args' = a
    /\ output_lines' = lines
    /\ ret' = r
    /\ err' = "none"
    /\ UNCHANGED <<file_data, pc, offset, chunks, data_blocks, reads>>

CallToByteArray ==
    Returns("to_byte_array", <<>>, to_byte_array(chunks), <<>>)

CallGetAllChunksAsBytes ==
    Returns("get_all_chunks_as_bytes", <<>>, get_all_chunks_as_bytes(chunks), <<>>)

CallGetMetadata ==
    Returns("get_metadata", <<>>, get_metadata(chunks, data_blocks), <<>>)

\* self.data_blocks.copy()
CallGetDataBlocks ==
    Returns("get_data_blocks", <<>>, data_blocks, <<>>)

CallGetChunkInfo ==
    Returns("get_chunk_info", <<>>, get_chunk_info(chunks), <<>>)

CallDumpChunks ==
    \E ci \in DumpIndexLists, sh \in BOOLEAN, sa \in BOOLEAN :
        /\ Returns("dump_chunks",
                   [chunk_indices |-> ci, show_hex |-> sh, show_ascii |-> sa],
                   Join(10, output_lines'),
                   DumpLines(chunks, ci, sh, sa))

Next ==
    \/ ReadBegin
    \/ ReadIter
    \/ CallToByteArray
    \/ CallGetAllChunksAsBytes
    \/ CallGetMetadata
    \/ CallGetDataBlocks
    \/ CallGetChunkInfo
    \/ CallDumpChunks

Spec == Init /\ [][Next]_vars

\* read() is a sequential loop: once called it runs until it returns
FairSpec == Spec /\ WF_vars(ReadIter)

-----------------------------------------------------------------------------
(* parse_chunk_selection on its own: a pure function of its two arguments *)

SpecAlphabet == {48, 50, 44, 45, 32, 120}

SpecStrings ==
    UNION { [1..n -> SpecAlphabet] : n \in 0..MaxSpecLen }

\* the specifications the documentation gives, with 10 chunks
DocumentedSelections ==
    { [chunk_spec |-> s, max_chunks |-> 10] :
        s \in { <<49, 44, 51, 45, 53>>, <<48, 45, 50, 44, 50, 45, 52>>,
                <<53, 45, 51>>, <<97, 98, 99>>, <<>> } }

SelInit ==
    /\ file_data = <<>>
    /\ pc = "init"
    /\ offset = 0
    /\ chunks = <<>>
    /\ data_blocks = <<>>
    /\ reads = 0
    /\ err = "none"
    /\ op = "none"
    /\ args \in { [chunk_spec |-> s, max_chunks |-> n] :
                    s \in SpecStrings, n \in 0..MaxCount }
               \cup DocumentedSelections
    /\ ret = <<>>
    /\ output_lines = <<>>

CallParseChunkSelection ==
    /\ op = "none"
    /\ LET r == parse_chunk_selection(args.chunk_spec, args.max_chunks)
       IN /\ err' = r.raised
          /\ ret' = r.value
    /\ op' = "parse_chunk_selection"
    /\ UNCHANGED <<file_data, pc, offset, chunks, data_blocks, reads, args,
                   output_lines>>

SelNext == CallParseChunkSelection

SelSpec == SelInit /\ [][SelNext]_vars

-----------------------------------------------------------------------------
(* What the properties below are stated with *)

RECURSIVE Consumed(_)
\* the bytes a chunk list stands for: 8 + header.length for every chunk
Consumed(cs) ==
    IF cs = <<>> THEN 0 ELSE 8 + Head(cs).header.length + Consumed(Tail(cs))

\* where the k-th chunk of cs starts in the file it was read from
StartOf(cs, k) == Consumed(SubSeq(cs, 1, k - 1))

\* the 16-bit little-endian number at fd[pos], fd[pos + 1] (1-based)
Le16At(fd, pos) == fd[pos] + 256 * fd[pos + 1]

\* the reader has decoded the file exactly once
DecodedOnce == pc = "ready" /\ reads = 1

\* at byte position p (0-based) of fd no complete chunk starts
IncompleteAt(fd, p) ==
    \/ Len(fd) - p < 8
    \/ p + 8 + Le16At(fd, p + 5) > Len(fd)

\* cs[k] is the complete chunk the file holds at the place cs gives it
CompleteInFile(fd, cs, k) ==
    LET s == StartOf(cs, k)
        h == cs[k].header
    IN /\ s + 8 + h.length <= Len(fd)
       /\ h.chunk_type = SubSeq(fd, s + 1, s + 4)
       /\ h.length = Le16At(fd, s + 5)
       /\ h.aux_data = Le16At(fd, s + 7)
       /\ cs[k].data = SubSeq(fd, s + 9, s + 8 + h.length)

-----------------------------------------------------------------------------
\* C1: decoding the bytes get_all_chunks_as_bytes() returns gives the reader's
\* chunk sequence back, field for field: the same number of chunks and at
\* every position the same chunk_type, length, aux_data and payload.
C1_RoundTrip ==
    op = "get_all_chunks_as_bytes" =>
        LET again == Decode(ret)
        IN /\ again.err = "none"
           /\ Len(again.chunks) = Len(chunks)
           /\ \A i \in 1..Len(chunks) :
                 /\ again.chunks[i].header.chunk_type = chunks[i].header.chunk_type
                 /\ again.chunks[i].header.length = chunks[i].header.length
                 /\ again.chunks[i].header.aux_data = chunks[i].header.aux_data
                 /\ again.chunks[i].data = chunks[i].data

\* a file that loses its tail is decoded into a chunk with payload and an aux
\* word above 255, and re-serialized
C1_Witness ==
    /\ op = "get_all_chunks_as_bytes"
    /\ DecodedOnce
    /\ Len(chunks) = 1
    /\ chunks[1].header.aux_data > 255
    /\ Len(chunks[1].data) > 0
    /\ Len(ret) < Len(file_data)

\* C2: read() raises nothing, every chunk it emits is a complete chunk of the
\* file at its place (nothing partial or padded), and it stops only where
\* the file is used up or no complete chunk starts: fewer than 8 bytes are
\* left, or the header there declares more payload than is left.
C2_Truncation ==
    DecodedOnce =>
        /\ err = "none"
        /\ \A k \in 1..Len(chunks) :
              /\ CompleteInFile(file_data, chunks, k)
              /\ Len(chunks[k].data) = chunks[k].header.length
        /\ \/ Consumed(chunks) = Len(file_data)
           \/ IncompleteAt(file_data, Consumed(chunks))

\* read() stopped in the middle of a payload after emitting a chunk
C2_Witness ==
    /\ DecodedOnce
    /\ Len(chunks) = 1
    /\ Len(file_data) - Consumed(chunks) >= 8
    /\ IncompleteAt(file_data, Consumed(chunks))

\* read() stopped in the middle of a header after emitting a chunk
C2_WitnessMidHeader ==
    /\ DecodedOnce
    /\ Len(chunks) >= 1
    /\ Len(file_data) - Consumed(chunks) \in 1..7

\* C3: the decode loop of read() terminates, and the chunks of one decode
\* stand for at most len(B) bytes: the sum of 8 + header.length is <= len(B).
C3_TerminatesWithinBuffer ==
    /\ [](reads = 0 \/ DecodedOnce => Consumed(chunks) <= Len(file_data))
    /\ (pc = "reading" ~> pc = "ready")

\* a decode that ended with chunks emitted and bytes of the file left over
C3_Witness ==
    /\ DecodedOnce
    /\ Len(chunks) = 2
    /\ Consumed(chunks) < Len(file_data)

\* the payloads of the chunks of type b'data', in order
DataPayloads(cs) ==
    LET sel == SelectSeq(cs, LAMBDA c : c.header.chunk_type = DATA)
    IN [i \in 1..Len(sel) |-> sel[i].data]

\* C4: in every state, to_byte_array() is the concatenation of
\* get_data_blocks(), and both hold exactly the payloads of the b'data'
\* chunks, in file order, and nothing of any other chunk.
C4_FlatStreamIsDataBlocks ==
    /\ data_blocks = DataPayloads(chunks)
    /\ op = "to_byte_array" => ret = Concat(data_blocks)
    /\ op = "get_data_blocks" =>
          /\ ret = DataPayloads(chunks)
          /\ Concat(ret) = to_byte_array(chunks)

\* to_byte_array() on a reader holding a data chunk and a chunk of another
\* type, both with payload
C4_Witness ==
    /\ op = "to_byte_array"
    /\ ret # <<>>
    /\ \E i \in 1..Len(chunks) :
          chunks[i].header.chunk_type # DATA /\ chunks[i].data # <<>>

\* the position of the last chunk of cs with property P, 0 when there is none
LastWith(cs, P(_)) ==
    IF \E i \in 1..Len(cs) : P(cs[i])
    THEN CHOOSE i \in 1..Len(cs) : P(cs[i]) /\ \A j \in (i + 1)..Len(cs) : ~P(cs[j])
    ELSE 0

\* the position of the first chunk of cs with property P, 0 when there is none
FirstWith(cs, P(_)) ==
    IF \E i \in 1..Len(cs) : P(cs[i])
    THEN CHOOSE i \in 1..Len(cs) : P(cs[i]) /\ \A j \in 1..(i - 1) : ~P(cs[j])
    ELSE 0

IsFuji(c) == c.header.chunk_type = FUJI
IsBaud(c) == c.header.chunk_type = BAUD
IsUsableBaud(c) == IsBaud(c) /\ Len(c.data) >= 2

C7_NeverMutated ==
    (pc = "ready" /\ reads >= 1) =>
        LET first == Decode(file_data)
        IN /\ chunks = first.chunks
           /\ data_blocks = first.data_blocks
           /\ op = "get_metadata" => ret.chunk_count = Len(first.chunks)

\* the same, for the operations other than read(): after the first read()
\* they leave both lists as the decode produced them
C7_DerivationsDoNotMutate ==
    DecodedOnce =>
        /\ chunks = Decode(file_data).chunks
        /\ data_blocks = Decode(file_data).data_blocks

Printable(b) == 32 <= b /\ b < 127

\* C8 as stated: one entry per chunk, in order, with its index, length and
\* aux_data, and the type code rendered with every byte outside the printable
\* range replaced by a placeholder, so always 4 characters.
C8_TypePlaceholder ==
    op = "get_chunk_info" =>
        /\ Len(ret) = Len(chunks)
        /\ \A i \in 1..Len(chunks) :
              LET tc == chunks[i].header.chunk_type
              IN /\ ret[i].index = i - 1
                 /\ ret[i].length = chunks[i].header.length
                 /\ ret[i].aux_data = chunks[i].header.aux_data
                 /\ Len(ret[i].type) = 4
                 /\ \A j \in 1..4 :
                       IF Printable(tc[j]) THEN ret[i].type[j] = tc[j]
                       ELSE ret[i].type[j] # tc[j]

\* C8 amended: one entry per chunk, in order, with its index, length and
\* aux_data, and the type code rendered as its bytes below 128, each as the
\* character of that code (control characters included): bytes from 128 up
\* are dropped, so the rendered type has 0 to 4 characters.  No type code
\* makes it fail.
C8_TypeAsciiOnly ==
    op = "get_chunk_info" =>
        /\ err = "none"
        /\ Len(ret) = Len(chunks)
        /\ \A i \in 1..Len(chunks) :
              LET tc == chunks[i].header.chunk_type
              IN /\ ret[i].index = i - 1
                 /\ ret[i].length = chunks[i].header.length
                 /\ ret[i].aux_data = chunks[i].header.aux_data
                 /\ ret[i].type = SelectSeq(tc, LAMBDA b : b < 128)
                 /\ Len(ret[i].type) <= 4

\* get_chunk_info() on a chunk whose type code has a byte above 127: the
\* rendered type is shorter than the type code
C8_Witness ==
    /\ op = "get_chunk_info"
    /\ \E i \in 1..Len(chunks) :
          /\ \E j \in 1..4 : chunks[i].header.chunk_type[j] >= 128
          /\ Len(ret[i].type) = 3

\* C10: after one decode by a fresh reader, get_all_chunks_as_bytes() is a
\* prefix of the file, as long as the sum of 8 + header.length over the
\* chunks; every payload is as long as its header says; and the bytes lost
\* are a suffix that starts where no complete chunk starts.
C10_SerializationIsPrefix ==
    (op = "get_all_chunks_as_bytes" /\ DecodedOnce) =>
        /\ Len(ret) = Consumed(chunks)
        /\ Len(ret) <= Len(file_data)
        /\ ret = SubSeq(file_data, 1, Len(ret))
        /\ \A k \in 1..Len(chunks) : Len(chunks[k].data) = chunks[k].header.length
        /\ Len(ret) < Len(file_data) => IncompleteAt(file_data, Len(ret))

\* the serialization of two chunks of a file whose last 6 bytes are lost
C10_Witness ==
    /\ op = "get_all_chunks_as_bytes"
    /\ DecodedOnce
    /\ Len(chunks) >= 1
    /\ Len(ret) > 8
    /\ Len(file_data) - Len(ret) \in 1..7

\* the value of a hexadecimal digit character, -1 for any other character
HexVal(c) ==
    IF c >= 48 /\ c <= 57 THEN c - 48
    ELSE IF c >= 97 /\ c <= 102 THEN c - 87
    ELSE 0 - 1

\* the number a run of hexadecimal digits stands for, -1 if one is no digit
RECURSIVE HexNumber(_)
HexNumber(s) ==
    IF s = <<>> THEN 0
    ELSE LET hi == HexNumber(SubSeq(s, 1, Len(s) - 1))
             lo == HexVal(s[Len(s)])
         IN IF hi < 0 \/ lo < 0 THEN 0 - 1 ELSE 16 * hi + lo

\* the indices dump_chunks was asked for that name a chunk, in the order asked
SelectedIndices(cs, chunk_indices) ==
    IF chunk_indices = <<>> THEN [i \in 1..Len(cs) |-> i - 1]
    ELSE SelectSeq(chunk_indices[1], LAMBDA i : 0 <= i /\ i < Len(cs))

\* ceil(n / 16)
RowsFor(n) == IF n % 16 = 0 THEN n \div 16 ELSE n \div 16 + 1

\* the lines one chunk takes: header, rule, rows or the marker, blank line
BlockLines(n) == 3 + (IF n = 0 THEN 1 ELSE RowsFor(n))

RECURSIVE BlockStart(_, _, _)
\* the lines before the block of the j-th selected index
BlockStart(cs, sel, j) ==
    IF j = 1 THEN 0
    ELSE BlockStart(cs, sel, j - 1) + BlockLines(Len(cs[sel[j - 1] + 1].data))

\* line is row k (from 0) of the n bytes data: its label is the offset 16k,
\* and it shows the bytes 16k .. min(16k + 15, n - 1) and no others
IsRow(line, data, k, show_hex, show_ascii) ==
    LET n == Len(data)
        m == Min(16, n - 16 * k)
        want == SubSeq(data, 16 * k + 1, 16 * k + m)
        hexpart == SubSeq(line, 7, 54)
        asciipart == IF show_hex THEN SubSeq(line, 58, Len(line))
                     ELSE SubSeq(line, 7, Len(line))
    IN /\ Len(line) >= 5
       /\ HexNumber(SubSeq(line, 1, 4)) = 16 * k
       /\ line[5] = 58
       /\ show_hex =>
             /\ Len(hexpart) = 48
             /\ \A j \in 1..m :
                   HexNumber(SubSeq(hexpart, 3 * j - 2, 3 * j - 1)) = want[j]
             /\ \A q \in (3 * m)..48 : hexpart[q] = 32
       /\ show_ascii =>
             /\ Len(asciipart) = m
             /\ \A j \in 1..m :
                   asciipart[j] = IF Printable(want[j]) THEN want[j] ELSE 46
       /\ (~show_hex /\ ~show_ascii) => Len(line) = 5

\* the header line of chunk idx starts "Chunk [idx] Type: "
IsHeaderLine(line, idx) ==
    LET head == <<67, 104, 117, 110, 107, 32, 91>> \o DecStr(idx)
                \o <<93, 32, 84, 121, 112, 101, 58, 32>>
    IN Len(line) >= Len(head) /\ SubSeq(line, 1, Len(head)) = head

\* C9: dump_chunks renders, for every selected index inside [0, chunk_count)
\* and in the order asked, one header line followed by the payload in rows of
\* 16 bytes: n > 0 bytes give exactly ceil(n/16) rows, row k showing bytes
\* 16k .. min(16k+15, n-1) under the label 16k; an empty payload gives the
\* marker '(empty)' and no row; indices outside the range give no output and
\* no error.
C9_DumpRows ==
    op = "dump_chunks" =>
        LET sel == SelectedIndices(chunks, args.chunk_indices)
            lines == output_lines
        IN /\ err = "none"
           /\ ret = Join(10, lines)
           /\ Len(lines) = BlockStart(chunks, sel \o <<0>>, Len(sel) + 1)
           /\ \A j \in 1..Len(sel) :
                 LET s == BlockStart(chunks, sel, j)
                     data == chunks[sel[j] + 1].data
                     n == Len(data)
                 IN /\ IsHeaderLine(lines[s + 1], sel[j])
                    /\ lines[s + BlockLines(n)] = <<>>
                    /\ IF n = 0
                       THEN lines[s + 3] = <<32, 32, 40, 101, 109, 112, 116, 121, 41>>
                       ELSE \A k \in 0..(RowsFor(n) - 1) :
                               IsRow(lines[s + 3 + k], data, k,
                                     args.show_hex, args.show_ascii)

\* a dump in hex and ASCII of a 17-byte chunk (two rows) and a chunk with no
\* payload, asked with two indices that name no chunk
C9_Witness ==
    /\ op = "dump_chunks"
    /\ args.chunk_indices = << <<0 - 1, 7, 1, 0>> >>
    /\ args.show_hex /\ args.show_ascii
    /\ Len(chunks) = 2
    /\ Len(chunks[1].data) = 17
    /\ Len(chunks[2].data) = 0
    /\ Len(output_lines) = 9

-----------------------------------------------------------------------------
(* The selection grammar: a part is a non-negative integer or start-end *)

\* s without the blanks around it
Trim(s) ==
    LET keep == {i \in 1..Len(s) : ~IsSpace(s[i])}
    IN IF keep = {} THEN <<>>
       ELSE SubSeq(s, CHOOSE i \in keep : \A j \in keep : i <= j,
                      CHOOSE i \in keep : \A j \in keep : i >= j)

\* a non-negative integer: digits and nothing else
IsNumber(s) == s # <<>> /\ \A i \in 1..Len(s) : IsDigit(s[i])

\* the comma-separated parts of s
PartsOf(s) ==
    LET cut == <<0>> \o SelectSeq([i \in 1..Len(s) |-> IF s[i] = 44 THEN i ELSE 0],
                                  LAMBDA i : i # 0) \o <<Len(s) + 1>>
    IN [k \in 1..(Len(cut) - 1) |-> SubSeq(s, cut[k] + 1, cut[k + 1] - 1)]

\* the ways to read part as start-end: the positions of a hyphen between two
\* non-negative integers
RangeReadings(part) ==
    {h \in 1..Len(part) :
        /\ part[h] = 45
        /\ IsNumber(Trim(SubSeq(part, 1, h - 1)))
        /\ IsNumber(Trim(SubSeq(part, h + 1, Len(part))))}

\* part is an integer or a well-formed range
WellFormedPart(part) == IsNumber(Trim(part)) \/ RangeReadings(Trim(part)) # {}

\* the indices part names
NamedBy(part) ==
    LET p == Trim(part)
    IN IF IsNumber(p) THEN {DigitsValue(p, 0)}
       ELSE UNION { DigitsValue(Trim(SubSeq(p, 1, h - 1)), 0)
                    ..DigitsValue(Trim(SubSeq(p, h + 1, Len(p))), 0) :
                    h \in RangeReadings(p) }

\* C6: for an empty spec the result is [0, ..., maxCount-1]; for a non-empty
\* one a parse error is raised if and only if some comma-separated part is
\* neither an integer nor a well-formed range start-end, and otherwise the
\* result is, strictly ascending and without duplicates, exactly the indices
\* in [0, maxCount) that a part names (a range with start > end names none,
\* indices out of range are dropped without error).
C6_SelectionParsed ==
    op = "parse_chunk_selection" =>
        LET s == args.chunk_spec
            n == args.max_chunks
            parts == PartsOf(s)
            bad == \E k \in 1..Len(parts) : ~WellFormedPart(parts[k])
        IN IF s = <<>>
           THEN err = "none" /\ ret = [i \in 1..n |-> i - 1]
           ELSE /\ (err = "ValueError") <=> bad
                /\ ~bad =>
                      /\ \A i \in 1..(Len(ret) - 1) : ret[i] < ret[i + 1]
                      /\ {ret[i] : i \in 1..Len(ret)} =
                            {i \in 0..(n - 1) :
                                \E k \in 1..Len(parts) : i \in NamedBy(parts[k])}

\* the same, with the parse error left to the code: whenever no error is
\* raised and every part is well formed, the result is as C6 says
C6_ResultWhenWellFormed ==
    op = "parse_chunk_selection" =>
        LET s == args.chunk_spec
            n == args.max_chunks
            parts == PartsOf(s)
            bad == \E k \in 1..Len(parts) : ~WellFormedPart(parts[k])
        IN IF s = <<>>
           THEN err = "none" /\ ret = [i \in 1..n |-> i - 1]
           ELSE /\ bad \/ err = "none"
                /\ ~bad =>
                      /\ \A i \in 1..(Len(ret) - 1) : ret[i] < ret[i + 1]
                      /\ {ret[i] : i \in 1..Len(ret)} =
                            {i \in 0..(n - 1) :
                                \E k \in 1..Len(parts) : i \in NamedBy(parts[k])}

\* a malformed part (its end is "-2") that raises nothing
C6_AcceptsMalformed ==
    /\ op = "parse_chunk_selection"
    /\ err = "none"
    /\ \E k \in 1..Len(PartsOf(args.chunk_spec)) :
          ~WellFormedPart(PartsOf(args.chunk_spec)[k])

====
